---- MODULE Spec2Model ----
(***************************************************************************)
(* find_beacons of findbeacons.py as a state machine.                      *)
(*                                                                         *)
(* Text is a sequence of one-character strings.  A log line is the         *)
(* sequence of its whitespace-separated fields, ended by a newline; the    *)
(* fields of a line hold no whitespace.  A timestamp is held in tenths of  *)
(* a second; the timestamps the model reads (whole seconds, and 0.1) are   *)
(* ones on which Python's float subtraction followed by int() agrees with  *)
(* the integer arithmetic of Delta.                                        *)
(* Python's 0-based indexes are written 1-based: cur_index and next_index  *)
(* are the source's plus one.                                              *)
(***************************************************************************)
EXTENDS Integers, Sequences, FiniteSets, TLC

\* ------------------------------------------------------------------ bounds
\* Longest log, in lines.
MaxLines == 4
\* Latest whole second a line of the log is stamped with.
MaxSec == 2

\* ------------------------------------------------------------------ text
Digits == {"0", "1", "2", "3", "4", "5", "6", "7", "8", "9"}

DigitChars == <<"0", "1", "2", "3", "4", "5", "6", "7", "8", "9">>

DigitVal(c) == CHOOSE d \in 0..9 : DigitChars[d + 1] = c

\* \d+ against a whole field
IsDigits(s) == Len(s) > 0 /\ \A i \in 1..Len(s) : s[i] \in Digits

\* \d+\.\d+ against a whole piece of text
IsDecimal(s) ==
    \E d \in 2..(Len(s) - 1) :
        /\ s[d] = "."
        /\ IsDigits(SubSeq(s, 1, d - 1))
        /\ IsDigits(SubSeq(s, d + 1, Len(s)))

HasSlash(s) == \E i \in 1..Len(s) : s[i] = "/"

RECURSIVE IntOf(_)
IntOf(s) ==
    IF s = <<>> THEN 0
    ELSE IntOf(SubSeq(s, 1, Len(s) - 1)) * 10 + DigitVal(s[Len(s)])

\* float() of a captured timestamp, in tenths of a second (the first digit of
\* the fraction; the timestamps of the model have one).
ParseFloat(s) ==
    LET d == CHOOSE k \in 2..(Len(s) - 1) : s[k] = "."
    IN  IntOf(SubSeq(s, 1, d - 1)) * 10 + DigitVal(s[d + 1])

\* The text of a whole number, and of a timestamp given in tenths.
IntText(n) ==
    LET len == CHOOSE k \in 1..9 : n < 10 ^ k /\ (k = 1 \/ n >= 10 ^ (k - 1))
    IN  [i \in 1..len |-> DigitChars[((n \div (10 ^ (len - i))) % 10) + 1]]

TsText(t) == IntText(t \div 10) \o <<".", DigitChars[(t % 10) + 1]>>

\* ------------------------------------------------------------------ parser
NoMatch == [matched |-> FALSE]

SetMin(S) == CHOOSE x \in S : \A y \in S : x <= y

\* regex_strs["timestamp"]: the expression is searched for, not anchored, so it
\* takes the longest piece at the end of a field that reads \d+\.\d+ .
TimestampCapture(f) ==
    LET starts == {k \in 1..Len(f) : IsDecimal(SubSeq(f, k, Len(f)))}
    IN  IF starts = {} THEN <<>> ELSE SubSeq(f, SetMin(starts), Len(f))

\* The expression config["client"] is put into the regular expression as it is:
\* "." stands for any character, every other character of the model's clients
\* for itself.
PatMatch(pat, f) ==
    /\ Len(pat) = Len(f)
    /\ \A i \in 1..Len(pat) : pat[i] = "." \/ pat[i] = f[i]

\* regex_strs["client"] as build_regex_str leaves it.
ClientMatches(c, f) ==
    IF c # <<>> THEN PatMatch(c, f) ELSE TRUE

\* The regular expression of build_regex_str(["timestamp", "client", "url"])
\* tried with the timestamp in field p: the fields joined by \s+, the lazy
\* result_code running to the first "/" and on to the field before the first
\* all-digit field (bytes), then method, url, user, hierarchy_code each one
\* field, the last \s+ taking the newline and type taking nothing.
MatchAt(line, c, p) ==
    IF /\ p + 2 <= Len(line)
       /\ TimestampCapture(line[p]) # <<>>
       /\ IsDigits(line[p + 1])
       /\ ClientMatches(c, line[p + 2])
    THEN LET slashes == {i \in (p + 3)..Len(line) : HasSlash(line[i])}
         IN  IF slashes = {} THEN NoMatch
             ELSE LET s == SetMin(slashes)
                      byts == {i \in (s + 1)..Len(line) : IsDigits(line[i])}
                  IN  IF byts = {} THEN NoMatch
                      ELSE LET b == SetMin(byts)
                           IN  IF b + 4 <= Len(line)
                               THEN [matched |-> TRUE,
                                     timestamp |-> TimestampCapture(line[p]),
                                     client |-> line[p + 2],
                                     url |-> line[b + 2]]
                               ELSE NoMatch
    ELSE NoMatch

\* regex.findall(line), and current_fields[0] of it: the leftmost match.
ParseLine(line, c) ==
    LET ps == {p \in 1..Len(line) : MatchAt(line, c, p).matched}
    IN  IF ps = {} THEN NoMatch ELSE MatchAt(line, c, SetMin(ps))

\* ------------------------------------------------------------------ aggregator
EmptyMap == [u \in {} |-> <<>>]

Remove(td, url) == [u \in (DOMAIN td) \ {url} |-> td[u]]

\* if url in time_data: append, else: a new list
Observe(td, url, timestamp) ==
    IF url \in DOMAIN td
    THEN [td EXCEPT ![url] = Append(td[url], timestamp)]
    ELSE [u \in (DOMAIN td) \cup {url} |->
             IF u = url THEN <<timestamp>> ELSE td[u]]

\* The order of time_data's keys: a new url goes last.
ObserveKey(ks, td, url) == IF url \in DOMAIN td THEN ks ELSE Append(ks, url)

\* ------------------------------------------------------------------ detector
\* The sort left out: the list stays in file order.
NoSort(s) == s

\* time_data[url].sort(reverse=True)
SortDesc(s) == SortSeq(s, LAMBDA a, b : a > b)

\* round() in the place of int().
TruncRound(tenths) == (tenths + 5) \div 10

\* int() of a difference of two floats, in whole seconds: toward zero.
Trunc(tenths) == IF tenths >= 0 THEN tenths \div 10 ELSE -((-tenths) \div 10)

\* delta = int(timestamp - timestamps[next_index])
Delta(timestamps, cur, nxt) ==
    Trunc(timestamps[cur] - timestamps[nxt])

\* The last value of cur_index (timestamps[:-1]) and of next_index
\* (range(cur_index, timestamp_count - 1)).
LastIndex(timestamps) == Len(timestamps) - 1

\* The `for cur_index` loop goes to its next timestamp.
NextCur(st, found) ==
    [cur_index |-> st.cur_index + 1,
     next_index |-> st.cur_index + 1,
     beacon_count |-> st.beacon_count + found]

\* One pass of the body of the inner loop, with the break on delta > interval
\* (early_break) or without it.
InnerBodyWith(timestamps, ivl, st, early_break) ==
    LET delta == Delta(timestamps, st.cur_index, st.next_index)
    IN  IF delta = ivl THEN NextCur(st, 1)
        ELSE IF early_break /\ delta > ivl THEN NextCur(st, 0)
        ELSE IF st.next_index + 1 > LastIndex(timestamps) THEN NextCur(st, 0)
        ELSE [st EXCEPT !.next_index = st.next_index + 1]

InnerBody(timestamps, ivl, st) ==
    InnerBodyWith(timestamps, ivl, st, TRUE)

LoopStart == [cur_index |-> 1, next_index |-> 1, beacon_count |-> 0]

LoopOver(timestamps, st) == st.cur_index > LastIndex(timestamps)

\* The two nested loops, run to their end.
RECURSIVE RunLoops(_, _, _)
RunLoops(timestamps, ivl, st) ==
    IF LoopOver(timestamps, st) THEN st.beacon_count
    ELSE RunLoops(timestamps, ivl, InnerBody(timestamps, ivl, st))

BeaconCount(timestamps, ivl) == RunLoops(timestamps, ivl, LoopStart)

\* The intervals counted as if they were the timestamps: one too many.
KeepOffByOne(count, min) == count + 1 >= min

\* `==` in the place of `>=`.
KeepExact(count, min) == count = min

\* if beacon_count >= min_count
Keep(count, min) == count >= min

\* if len(time_data[url]) == 1
Single(series) == Len(series) = 1

\* if beacon_count >= min_count: the count replaces the list, else: del
Decide(td, url, count, min) ==
    IF Keep(count, min) THEN [td EXCEPT ![url] = count] ELSE Remove(td, url)

\* ------------------------------------------------------------------ whole run
NoData == [td |-> EmptyMap, keys |-> <<>>, raised |-> FALSE]

\* The test for an empty findall() left out.
SkipNever(m) == FALSE

\* if not current_fields: continue
Skip(m) == ~m.matched

\* The body of `for line in file_obj`, m being what regex.findall(line) found.
\* current_fields[0] of an empty list raises IndexError.
ScanStep(agg, m) ==
    IF Skip(m) THEN agg
    ELSE IF ~m.matched THEN [agg EXCEPT !.raised = TRUE]
    ELSE [td |-> Observe(agg.td, m.url, ParseFloat(m.timestamp)),
          keys |-> ObserveKey(agg.keys, agg.td, m.url),
          raised |-> agg.raised]

\* The scan of the first n lines of a log, found being what regex.findall
\* found in each of its lines.
RECURSIVE ScanLog(_, _)
ScanLog(found, n) ==
    IF n = 0 THEN NoData
    ELSE LET agg == ScanLog(found, n - 1)
         IN  IF agg.raised THEN agg ELSE ScanStep(agg, found[n])

\* The body of `for url in list(time_data.keys())`.
DetectUrl(td, url, ivl, min) ==
    IF Single(td[url]) THEN Remove(td, url)
    ELSE Decide(td, url, BeaconCount(SortDesc(td[url]), ivl), min)

RECURSIVE DetectAll(_, _, _, _, _)
DetectAll(td, ks, n, ivl, min) ==
    IF n = 0 THEN td
    ELSE DetectUrl(DetectAll(td, ks, n - 1, ivl, min),
                   ks[n], ivl, min)

\* time_data as the report finds it, for a log read to its end.
FindBeaconsResult(found, ivl, min) ==
    LET agg == ScanLog(found, Len(found))
    IN  DetectAll(agg.td, agg.keys, Len(agg.keys), ivl, min)

\* The two branches of the report swapped.
ReportBranchSwapped(td) == IF DOMAIN td # {} THEN "nosites" ELSE "listing"

\* if time_data: the listing, else: the "No sites" line
ReportBranch(td) == IF DOMAIN td # {} THEN "listing" ELSE "nosites"

\* ------------------------------------------------------------------ inputs
Target == <<"a", ".", "b">>
Lookalike == <<"a", "-", "b">>
Other == <<"c", ".", "d">>

UrlU == <<"/", "u">>
UrlV == <<"/", "v">>

Intervals == {1, 2}
MinCounts == {1, 2}

\* What a line of the log was written from: a timestamp (tenths of a second),
\* a client, a url, and how much of the line is there.
Written(shape, t, c, url) == [shape |-> shape, t |-> t, c |-> c, url |-> url]

\* timestamp duration client result_code bytes method url user hierarchy_code type
FullText(t, c, url) ==
    <<TsText(t), <<"7">>, c, <<"M", "/", "2">>, <<"9">>, <<"G">>, url,
      <<"-">>, <<"D">>, <<"t">>>>

\* The fields of a line: whole, cut short after the user field, with a word for
\* its timestamp, or without its last field.
LineText(w) ==
    LET full == FullText(w.t, w.c, w.url)
    IN  CASE w.shape = "full" -> full
          [] w.shape = "cut" -> SubSeq(full, 1, 8)
          [] w.shape = "notime" -> [full EXCEPT ![1] = <<"x">>]
          [] w.shape = "notype" -> SubSeq(full, 1, 9)

\* The lines the logs of the model are made of.  Every log has the lines of
\* CommonBook and those of one of the three books after it: the target's
\* requests at second 2 and after, at 0.1 s and for a second url; the requests
\* of two other clients; lines that are not whole.
CommonBook ==
    <<Written("full", 0, Target, UrlU), Written("full", 10, Target, UrlU)>>
DetectBook ==
    [s \in 1..(MaxSec - 1) |-> Written("full", 10 * (s + 1), Target, UrlU)]
        \o <<Written("full", 1, Target, UrlU), Written("full", 0, Target, UrlV)>>
ClientBook ==
    <<Written("full", 0, Other, UrlU), Written("full", 10, Other, UrlU),
      Written("full", 0, Lookalike, UrlU)>>
NoisyBook ==
    <<Written("cut", 10, Target, UrlU), Written("notime", 10, Target, UrlU),
      Written("notype", 10, Target, UrlU)>>
Book == CommonBook \o DetectBook \o ClientBook \o NoisyBook

\* A line is held as its number in Book.
Lines == 1..Len(Book)
Range(seq) == {seq[i] : i \in 1..Len(seq)}
Family(book) == {k \in Lines : Book[k] \in Range(CommonBook) \cup Range(book)}
Families == {Family(DetectBook), Family(ClientBook), Family(NoisyBook)}

\* regex.findall on every line of Book, with c for config["client"].
FindAll(c) == [k \in Lines |-> ParseLine(LineText(Book[k]), c)]

\* The same for a regular expression built with the target as its client and
\* with no client, worked out once.
FoundIn == (Target :> FindAll(Target)) @@ (<<>> :> FindAll(<<>>))

\* The logs of the model: at most MaxLines lines, all of one family.
IsLog(lines) ==
    /\ Len(lines) <= MaxLines
    /\ \E F \in Families : \A i \in 1..Len(lines) : lines[i] \in F

\* ------------------------------------------------------------------ state
VARIABLES
    pc,            \* where find_beacons is
    client,        \* config["client"]
    interval,      \* config["interval"]
    min_count,     \* config["min_count"]
    log,           \* the lines read from config["log_file"] so far (numbers in Book)
    file_obj,      \* "none", "open" or "closed"
    opens,         \* times the log file was opened
    time_data,     \* url -> timestamps, then url -> beacon_count
    keys,          \* the urls in the order time_data got them
    url_idx,       \* place in list(time_data.keys())
    cur_index, next_index, beacon_count,
    report,        \* "none", then the branch of the report taken
    err            \* "none", or what ended the run

vars == <<pc, client, interval, min_count, log, file_obj, opens,
          time_data, keys, url_idx, cur_index, next_index, beacon_count,
          report, err>>

config == <<client, interval, min_count>>
loopvars == <<cur_index, next_index, beacon_count>>

Init ==
    /\ pc = "start"
    /\ client = Target
    /\ interval \in Intervals
    /\ min_count \in MinCounts
    /\ log = <<>>
    /\ file_obj = "none"
    /\ opens = 0
    /\ time_data = EmptyMap
    /\ keys = <<>>
    /\ url_idx = 0
    /\ cur_index = 0
    /\ next_index = 0
    /\ beacon_count = 0
    /\ report = "none"
    /\ err = "none"

\* open_log_file succeeds
OpenLog ==
    /\ pc = "start"
    /\ file_obj' = "open"
    /\ opens' = opens + 1
    /\ pc' = "scan"
    /\ UNCHANGED <<config, log, time_data, keys, url_idx, loopvars, report, err>>

\* open_log_file fails: sys.exit(-1)
OpenFails ==
    /\ pc = "start"
    /\ pc' = "exit"
    /\ err' = "open"
    /\ UNCHANGED <<config, log, file_obj, opens, time_data, keys, url_idx,
                   loopvars, report>>

\* One pass of `for line in file_obj`: the file gives its next line
ReadLine ==
    /\ pc = "scan"
    /\ \E w \in Lines :
        /\ IsLog(Append(log, w))
        /\ log' = Append(log, w)
        /\ LET agg == ScanStep([td |-> time_data, keys |-> keys, raised |-> FALSE],
                               FoundIn[client][w])
           IN  /\ time_data' = agg.td
               /\ keys' = agg.keys
               /\ pc' = IF agg.raised THEN "aborted" ELSE "scan"
               /\ err' = IF agg.raised THEN "index" ELSE err
    /\ UNCHANGED <<config, file_obj, opens, url_idx, loopvars, report>>

\* Reading from the file raises (an I/O error, bytes that do not decode): the
\* exception leaves find_beacons.
ReadFails ==
    /\ pc = "scan"
    /\ pc' = "aborted"
    /\ err' = "read"
    /\ UNCHANGED <<config, log, file_obj, opens, time_data, keys, url_idx,
                   loopvars, report>>

\* The file is at its end: on to `for url in list(time_data.keys())`
EndOfFile ==
    /\ pc = "scan"
    /\ pc' = "urls"
    /\ url_idx' = 1
    /\ UNCHANGED <<config, log, file_obj, opens, time_data, keys, loopvars,
                   report, err>>

\* A url with one timestamp: del time_data[url]; continue
UrlSingle ==
    /\ pc = "urls"
    /\ url_idx <= Len(keys)
    /\ Single(time_data[keys[url_idx]])
    /\ time_data' = Remove(time_data, keys[url_idx])
    /\ url_idx' = url_idx + 1
    /\ UNCHANGED <<pc, config, log, file_obj, opens, keys, loopvars, report, err>>

\* A url with more: sort, beacon_count = 0, and into the loops
UrlSort ==
    /\ pc = "urls"
    /\ url_idx <= Len(keys)
    /\ ~Single(time_data[keys[url_idx]])
    /\ time_data' = [time_data EXCEPT
                        ![keys[url_idx]] = SortDesc(time_data[keys[url_idx]])]
    /\ cur_index' = LoopStart.cur_index
    /\ next_index' = LoopStart.next_index
    /\ beacon_count' = LoopStart.beacon_count
    /\ pc' = "inner"
    /\ UNCHANGED <<config, log, file_obj, opens, keys, url_idx, report, err>>

\* One pass of the body of `for next_index in range(...)`
Inner ==
    /\ pc = "inner"
    /\ LET timestamps == time_data[keys[url_idx]]
           st == InnerBody(timestamps, interval,
                           [cur_index |-> cur_index, next_index |-> next_index,
                            beacon_count |-> beacon_count])
       IN  /\ cur_index' = st.cur_index
           /\ next_index' = st.next_index
           /\ beacon_count' = st.beacon_count
           /\ pc' = IF LoopOver(timestamps, st) THEN "threshold" ELSE "inner"
    /\ UNCHANGED <<config, log, file_obj, opens, time_data, keys, url_idx,
                   report, err>>

\* if beacon_count >= min_count ... else del time_data[url]
Threshold ==
    /\ pc = "threshold"
    /\ time_data' = Decide(time_data, keys[url_idx], beacon_count, min_count)
    /\ url_idx' = url_idx + 1
    /\ pc' = "urls"
    /\ UNCHANGED <<config, log, file_obj, opens, keys, loopvars, report, err>>

\* The urls are done: the report
Report ==
    /\ pc = "urls"
    /\ url_idx > Len(keys)
    /\ report' = ReportBranch(time_data)
    /\ pc' = "close"
    /\ UNCHANGED <<config, log, file_obj, opens, time_data, keys, url_idx,
                   loopvars, err>>

\* file_obj.close()
Close ==
    /\ pc = "close"
    /\ file_obj' = "closed"
    /\ pc' = "done"
    /\ UNCHANGED <<config, log, opens, time_data, keys, url_idx, loopvars,
                   report, err>>

Next ==
    \/ OpenLog
    \/ OpenFails
    \/ ReadLine
    \/ ReadFails
    \/ EndOfFile
    \/ UrlSingle
    \/ UrlSort
    \/ Inner
    \/ Threshold
    \/ Report
    \/ Close

Spec == Init /\ [][Next]_vars

\* ------------------------------------------------------------------ claims
\* What regex.findall finds in every line of a log.
Found(lines) == [i \in 1..Len(lines) |-> FoundIn[client][lines[i]]]

\* The list the loops are working on.
CurSeries == time_data[keys[url_idx]]

\* The lines of the log the regular expression matches, and those of one url.
Matches(k) == FoundIn[client][k].matched
IsOf(url, k) == Matches(k) /\ FoundIn[client][k].url = url
LinesOf(url) == {i \in 1..Len(log) : IsOf(url, log[i])}
Recorded(url) == Cardinality(LinesOf(url))

\* Every url has been through the loops.
UrlsDone == pc \in {"close", "done"} \/ (pc = "urls" /\ url_idx > Len(keys))

\* A sorted list whose neighbours are all exactly `interval` seconds apart.
IsChain(timestamps) ==
    \A i \in 1..(Len(timestamps) - 1) :
        timestamps[i] - timestamps[i + 1] = 10 * interval

\* C1: a url whose k >= 2 timestamps are each exactly `interval` seconds after
\* the one before is given the beacon_count k - 1.
C1_ChainCount ==
    (pc = "threshold" /\ IsChain(CurSeries))
        => beacon_count = Len(CurSeries) - 1

\* The difference, in tenths of a second, of the pair the inner loop is at.
PairDiff == CurSeries[cur_index] - CurSeries[next_index]

\* C2: the comparison of a pair of timestamps interval + 0.9 seconds apart
\* never adds to beacon_count.
C2_NineTenthsNoMatch ==
    [][(pc = "inner" /\ PairDiff = 10 * interval + 9)
          => beacon_count' = beacon_count]_vars

\* C2, amended: the comparison of a pair of timestamps interval + 0.9 seconds
\* apart adds one to beacon_count (int() cuts the difference down to interval);
\* that of a pair interval - 0.1 seconds apart adds nothing.
C2_NineTenthsMatch ==
    [][/\ (pc = "inner" /\ PairDiff = 10 * interval + 9)
            => beacon_count' = beacon_count + 1
       /\ (pc = "inner" /\ PairDiff = 10 * interval - 1)
            => beacon_count' = beacon_count]_vars

\* The newest timestamp of a list has been matched, and by nothing but a
\* timestamp interval + 0.9 seconds before it.
C2_Witness ==
    /\ pc \in {"inner", "threshold"}
    /\ cur_index = 2
    /\ beacon_count = 1
    /\ \A j \in 1..LastIndex(CurSeries) :
          \/ CurSeries[1] - CurSeries[j] < 10 * interval
          \/ CurSeries[1] - CurSeries[j] = 10 * interval + 9

\* C3: once every url has been through the loops, each url left in time_data
\* holds a whole number >= min_count and had at least two timestamps recorded
\* in the scan; a url with one timestamp is not there.
C3_ResultInvariant ==
    UrlsDone =>
        \A u \in DOMAIN time_data :
            /\ time_data[u] \in Int
            /\ time_data[u] >= min_count
            /\ Recorded(u) >= 2

\* A url is reported while another url, seen once, is not.
C3_Witness ==
    /\ pc = "done"
    /\ DOMAIN time_data # {}
    /\ \E k \in Lines :
          Recorded(Book[k].url) = 1 /\ Book[k].url \notin DOMAIN time_data

\* What the same log gives with min_count one higher.
ResultAbove ==
    FindBeaconsResult(Found(log), interval, min_count + 1)

\* C4: the urls reported with min_count = m + 1 are among those reported with
\* min_count = m, each with the same count.
C4_MonotonicThreshold ==
    pc = "done" =>
        /\ DOMAIN ResultAbove \subseteq DOMAIN time_data
        /\ \A u \in DOMAIN ResultAbove : ResultAbove[u] = time_data[u]

\* A url is reported at both thresholds.
C4_Witness == pc = "done" /\ DOMAIN ResultAbove # {}

\* C5: a line whose client field is not the target client adds no timestamp to
\* any list.
C5_ClientIsolation ==
    [][(pc = "scan" /\ Len(log') = Len(log) + 1
            /\ Book[log'[Len(log')]].c # client)
          => time_data' = time_data]_vars

\* A step of find_beacons other than reading one more line.
Proceed ==
    \/ OpenLog
    \/ EndOfFile
    \/ UrlSingle
    \/ UrlSort
    \/ Inner
    \/ Threshold
    \/ Report
    \/ Close

\* No line read so far is matched by the regular expression.
NoLineMatches == \A i \in 1..Len(log) : ~Matches(log[i])

\* C6: when no line of the log matches, and neither the open nor a read failed,
\* nothing is raised, the run does not stop before its end, time_data is empty
\* when the urls are done and the report is the "No sites" line.
C6_NothingMatches ==
    (NoLineMatches /\ err \notin {"open", "read"}) =>
        /\ err = "none"
        /\ pc = "done" \/ ENABLED Proceed
        /\ UrlsDone => time_data = EmptyMap
        /\ pc \in {"close", "done"} => report = "nosites"

\* A log of lines none of which matches has been reported on.
C6_Witness ==
    /\ pc = "done"
    /\ Len(log) > 0
    /\ NoLineMatches
    /\ report = "nosites"

\* A line has the expected layout when the regular expression matches it with
\* no client asked for.
WellFormed(k) == FoundIn[<<>>][k].matched
WellFormedOnly(lines) == SelectSeq(lines, WellFormed)

C8_FileClosed ==
    /\ opens <= 1
    /\ (pc \in {"done", "aborted"} /\ opens = 1) => file_obj = "closed"

\* The loops without the break on delta > interval.
RECURSIVE RunLoopsNoBreak(_, _, _)
RunLoopsNoBreak(timestamps, int, st) ==
    IF LoopOver(timestamps, st) THEN st.beacon_count
    ELSE RunLoopsNoBreak(timestamps, int,
                         InnerBodyWith(timestamps, int, st, FALSE))

\* C9: for one cur_index the deltas do not fall as next_index goes up, and the
\* loops count what they would count without the break on delta > interval.
C9_BreakPreserves ==
    /\ (pc = "inner" /\ next_index > cur_index)
          => Delta(CurSeries, cur_index, next_index)
                >= Delta(CurSeries, cur_index, next_index - 1)
    /\ pc = "threshold"
          => beacon_count = RunLoopsNoBreak(CurSeries, interval, LoopStart)

\* The break on delta > interval is about to cut comparisons off.
C9_Witness ==
    /\ pc = "inner"
    /\ Delta(CurSeries, cur_index, next_index) > interval
    /\ next_index < LastIndex(CurSeries)

\* A log with two neighbouring lines changed over.
Swapped(lines, i) ==
    [lines EXCEPT ![i] = lines[i + 1], ![i + 1] = lines[i]]

\* The timestamps a url's lines were written with, in the order of the file.
InFileOrder(url) ==
    LET own == SelectSeq(log, LAMBDA k : IsOf(url, k))
    IN  [i \in 1..Len(own) |-> Book[own[i]].t]

\* C10: while it scans, each list holds its url's timestamps in the order of
\* the file; and the result of a log is the result of the log with any two
\* neighbouring lines changed over, so of every ordering of its lines.
C10_OrderIndependent ==
    /\ pc = "scan" =>
          \A u \in DOMAIN time_data : time_data[u] = InFileOrder(u)
    /\ pc = "done" =>
          \A i \in 1..(Len(log) - 1) :
              FindBeaconsResult(Found(Swapped(log, i)), interval, min_count)
                  = time_data

\* A url is reported from a log whose lines for it are not in time order.
C10_Witness ==
    /\ pc = "done"
    /\ \E u \in DOMAIN time_data :
          \E i, j \in LinesOf(u) : i < j /\ Book[log[i]].t > Book[log[j]].t

====
